---- MODULE Spec2Model ----
(***************************************************************************)
(* Model of the asynchronous TCP client of IOCP - NewThreadPool            *)
(* (Client/Client.cpp): one Client object, its IOEvent operation contexts, *)
(* the thread-pool completion callback and the caller operations, executed *)
(* by a small set of threads.  Results of the external calls (ConnectEx,   *)
(* WSARecv, WSASend, setsockopt, getaddrinfo, CreateSocket, ...) are       *)
(* inputs, drawn with \E among the results Winsock can give: a call on a   *)
(* closed socket fails, and so does ConnectEx on a socket that is          *)
(* connecting (WSAEALREADY) or connected (WSAEISCONN).                     *)
(***************************************************************************)
EXTENDS Integers, Sequences, FiniteSets, TLC

\* ---------------------------------------------------------------- bounds
MaxEvents == 3
MaxAddrs == 3

\* the threads: the application's, which call the operations of the client, and
\* the pool's, which run the completion callback.  Under Spec one thread of the
\* application calls; under SpecCallers two do, and no completion is delivered.
Callers == {"app"}
Callers2 == {"app", "app2"}
Workers == {"worker"}
Threads == Callers2 \cup Workers
Events == 1..MaxEvents

VARIABLES
    m_State,      \* Client::m_State: "WAIT", "CREATED", "CONNECTED", "CLOSED"
    m_Socket,     \* Client::m_Socket: "INVALID_SOCKET" or "SOCKET"
    m_pTPIO,      \* Client::m_pTPIO # NULL
    m_infoList,   \* length of the resolved address list (0: NULL)
    m_info,       \* cursor: entry i of a resolved list of n entries (NoInfo: NULL)
    ctx,          \* the IOEvent contexts: type, outstanding or not, releases
    armed,        \* StartThreadpoolIo calls not yet matched by a callback or a cancel
    alive,        \* ClientMan::IsAlive(client)
    removeReq,    \* ClientMan::PostRemoveClient(client) has been requested
    nCloseSocket, \* calls of Network::CloseSocket so far
    nCancelIoEx,  \* calls of CancelIoEx so far
    connected,    \* the socket has been connected (a connect has succeeded)
    fault,        \* a NULL m_info has been dereferenced
    pc,           \* per thread: position in the operation it executes
    op,           \* per thread: the operation it executes
    ev,           \* per thread: the IOEvent the operation holds (0: none)
    io,           \* per thread: IoResult / NumberOfBytesTransferred of the callback
    calls         \* per thread: the calls the running operation has made, in order

vars == <<m_State, m_Socket, m_pTPIO, m_infoList, m_info, ctx, armed, alive,
          removeReq, nCloseSocket, nCancelIoEx, connected, fault, pc, op, ev, io, calls>>

client == <<m_State, m_Socket, m_pTPIO, m_infoList, m_info>>
sockets == <<nCloseSocket, nCancelIoEx, connected>>

\* ---------------------------------------------------------------- helpers
Outcomes == {"error", "pending", "success"}

NoIo == [type |-> "NONE", result |-> "none", bytes |-> 0]

C(name) == <<name, 0>>

FreeEvent == [type |-> "NONE", pending |-> FALSE, rel |-> 0]

\* eventAllocator: the blocks in the pool, and the one get() hands out
Pooled(c) == {e \in Events : c[e].type = "NONE" /\ ~c[e].pending /\ c[e].rel = 0}
NextEvent(c) == CHOOSE e \in Pooled(c) : \A f \in Pooled(c) : e <= f

\* IOEvent::Create: a block of the pool, zeroed, with its client and type
IOEventCreate(c, e, type) == [c EXCEPT ![e] = [type |-> type, pending |-> FALSE, rel |-> 0]]

\* IOEvent::Destroy: eventAllocator.put(event) returns the block to the pool;
\* rel counts the puts of a block that is in the pool already
IOEventDestroy(c, e) ==
    IF c[e].type = "NONE"
    THEN [c EXCEPT ![e].rel = @ + 1]
    ELSE [c EXCEPT ![e].type = "NONE"]

\* the operation was handed to the OS: a completion will be delivered
Issue(c, e) == [c EXCEPT ![e].pending = TRUE]

\* a NULL addrinfo pointer, and addrinfo::ai_next of an entry
NoInfo == [i |-> 0, n |-> 0]
\* (a cursor that drops the rest of the list: a faulty variant, used to show
\* that C5 tells the difference)
AiNextLost(p) == NoInfo
AiNext(p) == IF p.i < p.n THEN [p EXCEPT !.i = @ + 1] ELSE NoInfo

\* (a ConnectEx that a connecting or connected socket does not refuse: a
\* variant, for C17)
ConnectExAny(c, sock, conn) == Outcomes
\* the results Winsock can give for a call on the socket
Connecting(c) == \E e \in Events : c[e].type = "CONNECT" /\ c[e].pending
ConnectExCan(c, sock, conn) ==
    IF sock # "SOCKET" \/ conn \/ Connecting(c) THEN {"error"} ELSE Outcomes
IoCan(sock, conn) == IF sock # "SOCKET" \/ ~conn THEN {"error"} ELSE Outcomes
SetsockoptCan(sock) == IF sock # "SOCKET" THEN {FALSE} ELSE BOOLEAN

\* a call of ConnectEx for candidate i and what it returned
ResultCode(x) == CASE x = "error" -> 0 [] x = "pending" -> 1 [] x = "success" -> 2
ConnectEx(i, x) == <<<<"ConnectEx", i>>, <<"ConnectEx returned", ResultCode(x)>>>>

Log(t, s) == calls' = [calls EXCEPT ![t] = @ \o s]
Goto(t, l) == pc' = [pc EXCEPT ![t] = l]
Begin(t, o, s) == /\ op' = [op EXCEPT ![t] = o]
                  /\ calls' = [calls EXCEPT ![t] = s]

\* a thread that has finished a step of its own ("done": the operation is
\* over, "cont": the rest of PostReceive follows) goes on before any other does
Ready == ~fault /\ \A u \in Threads : pc[u] \notin {"done", "cont"}
Idle(t) == pc[t] = "idle" /\ Ready

Has(t, name) == \E i \in 1..Len(calls[t]) : calls[t][i][1] = name
Count(t, name) == Cardinality({i \in 1..Len(calls[t]) : calls[t][i][1] = name})

\* ---------------------------------------------------------------- Init
Init ==
    /\ m_State = "WAIT"
    /\ m_Socket = "INVALID_SOCKET"
    /\ m_pTPIO = FALSE
    /\ m_infoList = 0
    /\ m_info = NoInfo
    /\ ctx = [e \in Events |-> FreeEvent]
    /\ armed = 0
    /\ alive = TRUE
    /\ removeReq = FALSE
    /\ nCloseSocket = 0
    /\ nCancelIoEx = 0
    /\ connected = FALSE
    /\ fault = FALSE
    /\ pc = [t \in Threads |-> "idle"]
    /\ op = [t \in Threads |-> "none"]
    /\ ev = [t \in Threads |-> 0]
    /\ io = [t \in Threads |-> NoIo]
    /\ calls = [t \in Threads |-> <<>>]

\* ---------------------------------------------------------------- Create
\* Client::Create(port); r is the step that fails ("ok": none)
CreateResult(r) ==
    [sock  |-> IF r = "socket" THEN "INVALID_SOCKET" ELSE "SOCKET",
     tpio  |-> r = "ok",
     state |-> IF r = "ok" THEN "CREATED" ELSE "WAIT",
     ret   |-> IF r = "ok" THEN 1 ELSE 0]

Create(t, r) ==
    /\ Idle(t) /\ alive
    /\ m_Socket = "INVALID_SOCKET" /\ m_State = "WAIT"
    /\ LET c == CreateResult(r) IN
       /\ m_Socket' = c.sock
       /\ m_pTPIO' = c.tpio
       /\ m_State' = c.state
       /\ Begin(t, "Create", <<<<"CreateSocket", IF r = "socket" THEN 0 ELSE 1>>,
                               <<"return", c.ret>>>>)
    /\ Goto(t, "done")
    /\ UNCHANGED <<m_infoList, m_info, ctx, armed, alive, removeReq,
                   sockets, fault, ev, io>>

\* ---------------------------------------------------------------- Close
\* Client::Close, line 207: the test of m_State
CloseNeeded(s) == s # "CLOSED"

Close(t) ==
    /\ Idle(t) /\ alive
    /\ IF CloseNeeded(m_State)
       THEN Begin(t, "Close", <<>>) /\ Goto(t, "Close_set")
       ELSE UNCHANGED <<pc, op, calls>>
    /\ UNCHANGED <<client, ctx, armed, alive, removeReq, sockets, fault, ev, io>>

\* lines 209-212, with sock the value of m_Socket: the calls made, in order; the
\* argument of a call tells whether the handle it is given is still open
CloseCalls(sock) ==
    <<C("m_State = CLOSED"),
      <<"CloseSocket", IF sock = "SOCKET" THEN 1 ELSE 0>>,
      <<"CancelIoEx", 0>>,
      C("m_Socket = INVALID_SOCKET")>>

\* line 209: m_State = CLOSED
CloseSet(t) ==
    /\ pc[t] = "Close_set" /\ Ready
    /\ m_State' = "CLOSED"
    /\ Log(t, <<Head(CloseCalls(m_Socket))>>)
    /\ Goto(t, "Close_socket")
    /\ UNCHANGED <<m_Socket, m_pTPIO, m_infoList, m_info, ctx, armed, alive,
                   removeReq, sockets, fault, op, ev, io>>

\* lines 210-212: Network::CloseSocket(m_Socket); CancelIoEx(m_Socket, NULL);
\* m_Socket = INVALID_SOCKET
CloseSocket(t) ==
    /\ pc[t] = "Close_socket" /\ Ready
    /\ nCloseSocket' = nCloseSocket + 1
    /\ nCancelIoEx' = nCancelIoEx + 1
    /\ m_Socket' = "INVALID_SOCKET"
    /\ Log(t, Tail(CloseCalls(m_Socket)))
    /\ Goto(t, IF op[t] = "~Client" THEN "Destroy_wait" ELSE "done")
    /\ UNCHANGED <<m_State, m_pTPIO, m_infoList, m_info, ctx, armed, alive,
                   removeReq, connected, fault, op, ev, io>>

\* ---------------------------------------------------------------- Destroy
\* Client::~Client, called for a client the registry has removed: Destroy(),
\* whose first call is Close() (line 218), here up to its test of m_State
Destructor(t) ==
    /\ Idle(t) /\ ~alive
    /\ \A u \in Threads : op[u] # "~Client"
    /\ Begin(t, "~Client", <<C("Destroy"), C("Close")>>)
    /\ Goto(t, IF CloseNeeded(m_State) THEN "Close_set" ELSE "Destroy_wait")
    /\ UNCHANGED <<client, ctx, armed, alive, removeReq, sockets, fault, ev, io>>

\* (a wait that returns at once: a faulty variant, for C12)
DrainedAtOnce(a, p) == TRUE
\* WaitForThreadpoolIoCallbacks(m_pTPIO, false) returns: no I/O that was started
\* is still to be notified, and no callback is running
Drained(a, p) == a = 0 /\ \A w \in Workers : p[w] = "idle"

\* lines 166-167: the list is freed if there is one
FreeList(l) == IF l # 0 THEN <<C("freeaddrinfo")>> ELSE <<>>

\* lines 220-222: the test of m_pTPIO and the wait; without an I/O association
\* Destroy returns and the destructor frees the list
DestroyWait(t) ==
    /\ pc[t] = "Destroy_wait" /\ Ready
    /\ IF m_pTPIO
       THEN /\ Drained(armed, pc)
            /\ Log(t, <<C("WaitForThreadpoolIoCallbacks")>>)
            /\ Goto(t, "Destroy_release")
       ELSE /\ Log(t, FreeList(m_infoList))
            /\ Goto(t, "deleted")
    /\ UNCHANGED <<client, ctx, armed, alive, removeReq, sockets, fault, op, ev, io>>

\* lines 223-224 and 166-167: CloseThreadpoolIo(m_pTPIO); m_pTPIO = NULL; then
\* the destructor frees the list
DestroyRelease(t) ==
    /\ pc[t] = "Destroy_release" /\ Ready
    /\ m_pTPIO' = FALSE
    /\ Log(t, <<C("CloseThreadpoolIo")>> \o FreeList(m_infoList))
    /\ Goto(t, "deleted")
    /\ UNCHANGED <<m_State, m_Socket, m_infoList, m_info, ctx, armed, alive,
                   removeReq, sockets, fault, op, ev, io>>

\* ---------------------------------------------------------------- PostReceive
\* Client::PostReceive, lines 299-338, on the contexts c with m_State = s and
\* x the result of WSARecv: the contexts, the change of armed, whether removal
\* is requested, the calls made, and whether line 342 is reached
\* (a test that takes every result of WSARecv for a success: a faulty variant,
\* for C13)
RecvFailedNever(x) == FALSE
\* lines 319-321: WSARecv returned SOCKET_ERROR with an error other than
\* ERROR_IO_PENDING
RecvFailed(x) == x = "error"

PostReceive(c, s, x) ==
    IF s = "CLOSED"
    THEN [ctx |-> c, arm |-> 0, rm |-> TRUE, tail |-> FALSE,
          calls |-> <<C("PostReceive"), C("PostRemoveClient")>>]
    ELSE LET e == NextEvent(c)
             a == <<C("PostReceive"), <<"IOEvent::Create", e>>,
                    C("StartThreadpoolIo"), <<"WSARecv", e>>,
                    <<"WSARecv returned", ResultCode(x)>>>>
         IN IF RecvFailed(x)
            THEN [ctx |-> IOEventCreate(c, e, "RECV"), arm |-> 0, rm |-> TRUE,
                  tail |-> FALSE,
                  calls |-> a \o <<C("CancelThreadpoolIo"), C("ERROR_CODE"),
                                   C("PostRemoveClient")>>]
            ELSE [ctx |-> Issue(IOEventCreate(c, e, "RECV"), e), arm |-> 1,
                  rm |-> FALSE, tail |-> TRUE, calls |-> a]

\* Client::OnConnect; ok: setsockopt(SO_UPDATE_CONNECT_CONTEXT) succeeded
OnConnect(c, s, ok, x) ==
    IF ok
    THEN LET r == PostReceive(c, s, x) IN [r EXCEPT !.calls = <<C("OnConnect")>> \o @]
    ELSE [ctx |-> c, arm |-> 0, rm |-> FALSE, tail |-> FALSE,
          calls |-> <<C("OnConnect"), C("ERROR_CODE")>>]

\* (a receive handler that posts two receives: a faulty variant, for C4)
OnRecvTwice(c, s, x) ==
    LET r == PostReceive(c, s, x) IN
    IF r.tail /\ Pooled(r.ctx) # {}
    THEN LET q == PostReceive(r.ctx, s, x)
         IN [q EXCEPT !.arm = r.arm + q.arm,
                      !.calls = <<C("OnRecv")>> \o r.calls \o @]
    ELSE [r EXCEPT !.calls = <<C("OnRecv")>> \o @]

\* (a receive handler that posts no receive: a faulty variant, for C20)
OnRecvOnly(c, s, x) ==
    [ctx |-> c, arm |-> 0, rm |-> FALSE, tail |-> FALSE, calls |-> <<C("OnRecv")>>]

\* Client::OnRecv
OnRecv(c, s, x) ==
    LET r == PostReceive(c, s, x) IN [r EXCEPT !.calls = <<C("OnRecv")>> \o @]

\* PostReceive allocates a context unless the client is closed
CanReceive(c, s) == s = "CLOSED" \/ Pooled(c) # {}

\* what follows a handler h in the operation o of thread t that holds event e:
\* the rest of PostReceive (line 342 on), or IOEvent::Destroy(event) and the
\* return (lines 152, 288-289)
After(t, o, e, pre, h) ==
    /\ armed' = armed + h.arm + (IF o = "PostConnect" THEN 1 ELSE -1)
    /\ armed' <= MaxEvents
    /\ removeReq' = (removeReq \/ h.rm)
    /\ ev' = [ev EXCEPT ![t] = e]
    /\ IF h.tail
       THEN /\ ctx' = h.ctx
            /\ Begin(t, o, pre \o h.calls)
            /\ Goto(t, "cont")
       ELSE /\ ctx' = IOEventDestroy(h.ctx, e)
            /\ Begin(t, o, pre \o h.calls \o <<<<"IOEvent::Destroy", e>>>>
                           \o (IF o = "PostConnect" THEN <<<<"return", 1>>>> ELSE <<>>))
            /\ Goto(t, "done")

\* the end of an operation that went through PostReceive: IOEvent::Destroy(event)
\* and the return
Finish(t) ==
    /\ ctx' = IOEventDestroy(ctx, ev[t])
    /\ Log(t, <<<<"IOEvent::Destroy", ev[t]>>>>
              \o (IF op[t] = "PostConnect" THEN <<<<"return", 1>>>> ELSE <<>>))
    /\ Goto(t, "done")

\* WSARecv has returned: PostReceive goes on at line 342
Continue(t) ==
    /\ pc[t] = "cont"
    /\ Goto(t, "Promote_check")
    /\ calls' = [calls EXCEPT ![t] = <<>>]
    /\ io' = [io EXCEPT ![t] = NoIo]
    /\ UNCHANGED <<client, ctx, armed, alive, removeReq, sockets, fault, op, ev>>

\* line 342: the test m_State == CREATED
PromoteCheck(t) ==
    /\ pc[t] = "Promote_check" /\ Ready
    /\ IF m_State = "CREATED"
       THEN Goto(t, "Promote_set") /\ UNCHANGED <<ctx, calls>>
       ELSE Finish(t)
    /\ UNCHANGED <<client, armed, alive, removeReq, sockets, fault, op, ev, io>>

\* line 344: m_State = CONNECTED
PromoteSet(t) ==
    /\ pc[t] = "Promote_set" /\ Ready
    /\ m_State' = "CONNECTED"
    /\ Finish(t)
    /\ UNCHANGED <<m_Socket, m_pTPIO, m_infoList, m_info, armed, alive,
                   removeReq, sockets, fault, op, ev, io>>

\* ---------------------------------------------------------------- PostConnect
\* Client::PostConnect, lines 261-291: the loop over the resolved candidates from
\* candidate i on, res[i] the result of ConnectEx for candidate i
RECURSIVE ConnectLoop(_, _, _)
ConnectLoop(p, res, acc) ==
    IF p = NoInfo
    THEN [info |-> p, calls |-> acc, out |-> "error"]
    ELSE LET a == acc \o <<C("StartThreadpoolIo")>> \o ConnectEx(p.i, res[p.i]) IN
         IF res[p.i] = "error"
         THEN ConnectLoop(AiNext(p), res,
                          a \o <<C("CancelThreadpoolIo"), C("ERROR_CODE")>>)
         ELSE [info |-> p, calls |-> a, out |-> res[p.i]]

\* the results of ConnectEx for n candidates: the first k fail, the next one,
\* if any, does not, and the loop ends there (what the later ones would give is
\* never asked)
ConnectResults(n) ==
    {[i \in 1..n |-> IF i <= k THEN "error" ELSE o] :
        k \in 0..n, o \in Outcomes \ {"error"}}

\* n: the number of candidates getaddrinfo resolves (0: getaddrinfo fails);
\* the results of setsockopt and WSARecv are drawn should the connect succeed
\* at once
PostConnect(t, n, res) ==
    /\ Idle(t) /\ alive
    /\ IF m_State # "CREATED"
       THEN UNCHANGED <<client, ctx, armed, removeReq, connected, ev, pc, op, calls>>
       ELSE IF n = 0
       THEN /\ m_infoList' = 0
            /\ Begin(t, "PostConnect", <<C("getaddrinfo"), C("ERROR_CODE"), <<"return", 0>>>>)
            /\ Goto(t, "done")
            /\ UNCHANGED <<m_State, m_Socket, m_pTPIO, m_info, ctx, armed, removeReq,
                           connected, ev>>
       ELSE /\ Pooled(ctx) # {}
            /\ \A i \in 1..n : res[i] \in ConnectExCan(ctx, m_Socket, connected)
            /\ LET e == NextEvent(ctx)
                   L == ConnectLoop([i |-> 1, n |-> n], res,
                                    <<<<"getaddrinfo", n>>, <<"IOEvent::Create", e>>>>)
                   c == IOEventCreate(ctx, e, "CONNECT")
               IN /\ m_infoList' = n
                  /\ m_info' = L.info
                  /\ CASE L.out = "error" ->
                            /\ ctx' = IOEventDestroy(c, e)
                            /\ Begin(t, "PostConnect",
                                     L.calls \o <<<<"IOEvent::Destroy", e>>, <<"return", 0>>>>)
                            /\ Goto(t, "done")
                            /\ UNCHANGED <<armed, removeReq, connected, ev>>
                       [] L.out = "pending" ->
                            /\ ctx' = Issue(c, e)
                            /\ armed' = armed + 1
                            /\ armed' <= MaxEvents
                            /\ Begin(t, "PostConnect", L.calls \o <<<<"return", 1>>>>)
                            /\ Goto(t, "done")
                            /\ UNCHANGED <<removeReq, connected, ev>>
                       [] L.out = "success" ->
                            \E ok \in SetsockoptCan(m_Socket), x \in IoCan(m_Socket, TRUE) :
                               /\ ok => CanReceive(c, m_State)
                               /\ ~ok => x = "error"
                               /\ connected' = TRUE
                               /\ After(t, "PostConnect", e, L.calls,
                                        OnConnect(c, m_State, ok, x))
            /\ UNCHANGED <<m_State, m_Socket, m_pTPIO>>
    /\ UNCHANGED <<alive, nCloseSocket, nCancelIoEx, fault, io>>

\* ---------------------------------------------------------------- PostSend
\* Client::PostSend; x: the result of WSASend
\* (a PostSend that does not test the state: a faulty variant, for C11)
SendAllowedAlways(s) == TRUE
\* line 354: the test of m_State
SendAllowed(s) == s = "CONNECTED"

PostSend(t, x) ==
    /\ Idle(t) /\ alive
    /\ x \in IoCan(m_Socket, connected)
    /\ IF ~SendAllowed(m_State)
       THEN /\ Begin(t, "PostSend", <<>>)
            /\ Goto(t, "done")
            /\ UNCHANGED <<ctx, armed, removeReq>>
       ELSE /\ Pooled(ctx) # {}
            /\ LET e == NextEvent(ctx)
                   c == IOEventCreate(ctx, e, "SEND")
                   a == <<C("memcpy"), <<"IOEvent::Create", e>>, C("StartThreadpoolIo"),
                          <<"WSASend", e>>>>
               IN IF x = "error"
                  THEN /\ ctx' = c
                       /\ armed' = armed
                       /\ removeReq' = TRUE
                       /\ Begin(t, "PostSend", a \o <<C("CancelThreadpoolIo"),
                                  C("ERROR_CODE"), C("PostRemoveClient")>>)
                       /\ Goto(t, "done")
                  ELSE /\ ctx' = Issue(c, e)
                       /\ armed' = armed + 1
                       /\ armed' <= MaxEvents
                       /\ removeReq' = removeReq
                       /\ Begin(t, "PostSend", a)
                       /\ Goto(t, "done")
    /\ UNCHANGED <<client, alive, sockets, fault, ev, io>>

\* ---------------------------------------------------------------- Shutdown
\* Client::Shutdown; ok: shutdown(m_Socket, SD_SEND) succeeded
Shutdown(t, ok) ==
    /\ Idle(t) /\ alive
    /\ IF m_State # "CONNECTED"
       THEN UNCHANGED <<pc, op, calls>>
       ELSE /\ Begin(t, "Shutdown", <<C("shutdown"), <<"return", IF ok THEN 1 ELSE 0>>>>)
            /\ Goto(t, "done")
    /\ UNCHANGED <<client, ctx, armed, alive, removeReq, sockets, fault, ev, io>>

\* ---------------------------------------------------------------- the dispatcher
\* line 78: the completion is for a client that is gone
\* (a dispatcher that does not consult the registry: a faulty variant, for C2)
NotAliveUnchecked(a) == FALSE
NotAlive(a) == ~a

\* lines 94-95: the receive carries data for a client that is not closed
\* (a test that forgets the state: a faulty variant, for C8)
RecvHasDataOnly(n, s) == n > 0
RecvHasData(n, s) == n > 0 /\ s # "CLOSED"

\* Client::OnClose: the state it leaves, s being the state it finds (it logs;
\* its call of Destroy is commented out)
\* (an OnClose whose call of Destroy is not commented out: a variant, for C9)
OnCloseDestroys(s) == "CLOSED"
OnClose(s) == s

\* Client::IoCompletionCallback for context e, with IoResult r and n bytes; the
\* results of ConnectEx, setsockopt and WSARecv are drawn where it calls them
IoCompletionCallback(t, e, r, n) ==
    /\ Idle(t)
    /\ ctx[e].pending
    /\ (r # "ERROR_SUCCESS" \/ ctx[e].type # "RECV") => n = 0
    /\ io' = [io EXCEPT ![t] = [type |-> ctx[e].type, result |-> r, bytes |-> n]]
    /\ LET c == [ctx EXCEPT ![e].pending = FALSE]
           type == ctx[e].type
           none == [ctx |-> c, arm |-> 0, rm |-> FALSE, tail |-> FALSE, calls |-> <<>>]
           remove == [none EXCEPT !.rm = TRUE, !.calls = <<C("PostRemoveClient")>>]
           cb(pre, h) == After(t, "IoCompletionCallback", e, pre, h)
           conn == connected \/ (type = "CONNECT" /\ r = "ERROR_SUCCESS")
       IN
       IF NotAlive(alive)
       THEN cb(<<>>, none) /\ connected' = conn /\ UNCHANGED <<m_info, fault>>
       ELSE IF r = "ERROR_SUCCESS"
       THEN /\ UNCHANGED <<m_info, fault>>
            /\ connected' = conn
            /\ CASE type = "CONNECT" ->
                      \E ok \in SetsockoptCan(m_Socket), x \in IoCan(m_Socket, TRUE) :
                         /\ ok => CanReceive(c, m_State)
                         /\ ~ok => x = "error"
                         /\ cb(<<>>, OnConnect(c, m_State, ok, x))
                 [] type = "RECV" ->
                      IF RecvHasData(n, m_State)
                      THEN \E x \in IoCan(m_Socket, connected) :
                              CanReceive(c, m_State) /\ cb(<<>>, OnRecv(c, m_State, x))
                      ELSE cb(<<C("OnClose")>>, remove)
                 [] type = "SEND" -> cb(<<C("OnSend")>>, none)
                 [] OTHER -> cb(<<>>, none)
       ELSE IF type = "CONNECT"
       THEN IF m_info = NoInfo
            THEN /\ fault' = TRUE
                 /\ m_info' = m_info
                 /\ ctx' = c
                 /\ armed' = armed - 1
                 /\ ev' = [ev EXCEPT ![t] = e]
                 /\ Begin(t, "IoCompletionCallback", <<C("ERROR_CODE")>>)
                 /\ Goto(t, "fault")
                 /\ UNCHANGED <<removeReq, connected>>
            ELSE LET nx == AiNext(m_info)
                     a(cx) == <<C("ERROR_CODE")>> \o ConnectEx(nx.i, cx)
                 IN /\ m_info' = nx
                    /\ fault' = fault
                    /\ IF nx = NoInfo
                       THEN cb(<<C("ERROR_CODE")>>, remove) /\ UNCHANGED connected
                       ELSE \E cx \in ConnectExCan(c, m_Socket, connected) :
                            CASE cx = "error" ->
                                   /\ cb(a(cx) \o <<C("ERROR_CODE")>>, remove)
                                   /\ UNCHANGED connected
                              [] cx = "pending" ->
                                   /\ ctx' = Issue(c, e)
                                   /\ armed' = armed - 1
                                   /\ ev' = [ev EXCEPT ![t] = e]
                                   /\ Begin(t, "IoCompletionCallback", a(cx))
                                   /\ Goto(t, "RetryArm")
                                   /\ UNCHANGED <<removeReq, connected>>
                              [] cx = "success" ->
                                   \E ok \in SetsockoptCan(m_Socket), x \in IoCan(m_Socket, TRUE) :
                                      /\ ok => CanReceive(c, m_State)
                                      /\ ~ok => x = "error"
                                      /\ connected' = TRUE
                                      /\ cb(a(cx), OnConnect(c, m_State, ok, x))
       ELSE cb(<<C("ERROR_CODE")>>, remove) /\ UNCHANGED <<m_info, fault, connected>>
    /\ m_State' = IF /\ ~NotAlive(alive) /\ r = "ERROR_SUCCESS" /\ ctx[e].type = "RECV"
                     /\ ~RecvHasData(n, m_State)
                  THEN OnClose(m_State)
                  ELSE m_State
    /\ UNCHANGED <<m_Socket, m_pTPIO, m_infoList, alive, nCloseSocket, nCancelIoEx>>

\* lines 137-138: StartThreadpoolIo after the retried ConnectEx is pending; return
RetryArm(t) ==
    /\ pc[t] = "RetryArm" /\ Ready
    /\ armed' = armed + 1
    /\ Log(t, <<C("StartThreadpoolIo")>>)
    /\ Goto(t, "done")
    /\ UNCHANGED <<client, ctx, alive, removeReq, sockets, fault, op, ev, io>>

\* ---------------------------------------------------------------- the registry
\* ClientMan removes a client whose removal was requested
RemoveClient ==
    /\ Ready
    /\ alive /\ removeReq
    /\ alive' = FALSE
    /\ UNCHANGED <<client, ctx, armed, removeReq, sockets, fault, pc, op, ev, io, calls>>

\* ---------------------------------------------------------------- Return
\* the operation returns to its caller
Return(t) ==
    /\ pc[t] = "done"
    /\ pc' = [pc EXCEPT ![t] = "idle"]
    /\ op' = [op EXCEPT ![t] = "none"]
    /\ ev' = [ev EXCEPT ![t] = 0]
    /\ io' = [io EXCEPT ![t] = NoIo]
    /\ calls' = [calls EXCEPT ![t] = <<>>]
    /\ UNCHANGED <<client, ctx, armed, alive, removeReq, sockets, fault>>

Next ==
    \/ \E t \in Callers, r \in {"socket", "reuseaddr", "tpio", "ok"} : Create(t, r)
    \/ \E t \in Callers : Close(t)
    \/ \E t \in Threads : CloseSet(t)
    \/ \E t \in Threads : CloseSocket(t)
    \/ \E t \in Callers, n \in 0..MaxAddrs : \E res \in ConnectResults(n) :
          PostConnect(t, n, res)
    \/ \E t \in Threads : Continue(t)
    \/ \E t \in Threads : PromoteCheck(t)
    \/ \E t \in Threads : PromoteSet(t)
    \/ \E t \in Callers, x \in Outcomes : PostSend(t, x)
    \/ \E t \in Callers, ok \in BOOLEAN : Shutdown(t, ok)
    \/ \E t \in Workers, e \in Events, r \in {"ERROR_SUCCESS", "ERROR"}, n \in 0..1 :
          IoCompletionCallback(t, e, r, n)
    \/ \E t \in Threads : RetryArm(t)
    \/ RemoveClient
    \/ \E t \in Callers : Destructor(t)
    \/ \E t \in Callers : DestroyWait(t)
    \/ \E t \in Callers : DestroyRelease(t)
    \/ \E t \in Threads : Return(t)

Spec == Init /\ [][Next]_vars

\* two threads of the application call the operations
NextCallers ==
    \/ \E t \in Callers2, r \in {"socket", "reuseaddr", "tpio", "ok"} : Create(t, r)
    \/ \E t \in Callers2 : Close(t)
    \/ \E t \in Callers2 : CloseSet(t)
    \/ \E t \in Callers2 : CloseSocket(t)
    \/ \E t \in Callers2, n \in 0..MaxAddrs : \E res \in ConnectResults(n) :
          PostConnect(t, n, res)
    \/ \E t \in Callers2 : Continue(t)
    \/ \E t \in Callers2 : PromoteCheck(t)
    \/ \E t \in Callers2 : PromoteSet(t)
    \/ \E t \in Callers2, x \in Outcomes : PostSend(t, x)
    \/ \E t \in Callers2, ok \in BOOLEAN : Shutdown(t, ok)
    \/ \E t \in Callers2 : Return(t)

SpecCallers == Init /\ [][NextCallers]_vars

\* ================================================================ properties
CB == "IoCompletionCallback"

\* the dispatcher has run for a live client and is about to return
Dispatched(t) == pc[t] = "done" /\ op[t] = CB /\ alive

\* ---------------------------------------------------------------- C1
\* C1: context accounting.  Every context acquired from the pool is, at any
\* time, outstanding, held by the operation that still runs, or released; so
\* each is released exactly once: none is left acquired with no operation to
\* release it (a leak), and none is released twice.
Held(e) == \E t \in Threads : ev[t] = e /\ pc[t] \notin {"idle", "done"}
C1_ContextAccounting ==
    \A e \in Events :
       /\ ctx[e].rel = 0
       /\ ctx[e].type # "NONE" => (ctx[e].pending \/ Held(e))

\* ---------------------------------------------------------------- C2
\* C2: liveness gate.  A dispatcher invocation for a context whose client is
\* not alive releases the context and returns: it calls no handler, posts no
\* operation, leaves the client (state, socket, address cursor) unchanged and
\* requests no removal, whatever the operation kind and the IoResult.
C2_LivenessGate ==
    [][\A t \in Workers :
          (pc[t] = "idle" /\ op'[t] = CB /\ ~alive) =>
             /\ pc'[t] = "done"
             /\ calls'[t] = <<<<"IOEvent::Destroy", ev'[t]>>>>
             /\ ctx'[ev'[t]] = FreeEvent
             /\ \A e \in Events \ {ev'[t]} : ctx'[e] = ctx[e]
             /\ armed' = armed - 1
             /\ UNCHANGED <<client, removeReq, alive, fault>>]_vars

C2_Witness ==
    \E t \in Workers : pc[t] = "done" /\ op[t] = CB /\ ~alive
                       /\ calls[t] = <<<<"IOEvent::Destroy", ev[t]>>>>

\* ---------------------------------------------------------------- C3
\* C3: state monotonicity.  Under every interleaving of the caller operations
\* with the handlers on the worker threads, the state only moves along
\* WAIT -> CREATED -> CONNECTED -> CLOSED: no step takes it backwards, so once
\* CLOSED it is never CONNECTED again.
StateRank(s) ==
    CASE s = "WAIT" -> 0 [] s = "CREATED" -> 1 [] s = "CONNECTED" -> 2 [] s = "CLOSED" -> 3
C3_StateMonotonic == [][StateRank(m_State) <= StateRank(m_State')]_vars

\* ---------------------------------------------------------------- C4
\* C4: single receive in flight.  At any instant at most one RECV context is
\* outstanding (posted and not yet delivered to the dispatcher).
RecvOutstanding == {e \in Events : ctx[e].type = "RECV" /\ ctx[e].pending}
C4_SingleReceive == Cardinality(RecvOutstanding) <= 1

\* the handler of a receive completion has posted the next receive
C4_Witness ==
    \E t \in Workers : pc[t] = "cont" /\ io[t].type = "RECV"
                       /\ Cardinality(RecvOutstanding) = 1

\* ---------------------------------------------------------------- C5
\* C5: connect retry exhaustion in PostConnect.  With n candidates resolved,
\* PostConnect calls ConnectEx for candidates 1, 2, ... in order, each once, and
\* goes to the next only after a failure; it returns failure only after
\* candidate n has failed, and it does when all have failed; no candidate is
\* attempted after one that succeeds or is pending; OnConnect runs exactly once
\* when the attempt succeeds at once and not at all otherwise.
Sel(t, name) == SelectSeq(calls[t], LAMBDA c : c[1] = name)
Connects(t) == /\ op[t] = "PostConnect" /\ pc[t] \in {"done", "cont"}
               /\ Has(t, "getaddrinfo") /\ Sel(t, "getaddrinfo")[1][2] > 0
C5_ConnectExhaustion ==
    \A t \in Callers :
       Connects(t) =>
          LET n == Sel(t, "getaddrinfo")[1][2]
              tried == Sel(t, "ConnectEx")
              got == Sel(t, "ConnectEx returned")
              k == Len(tried)
              failed == Has(t, "return") /\ Sel(t, "return")[1][2] = 0
          IN /\ k \in 1..n /\ Len(got) = k
             /\ \A j \in 1..k : tried[j][2] = j
             /\ \A j \in 1..(k - 1) : got[j][2] = ResultCode("error")
             /\ failed <=> (k = n /\ got[k][2] = ResultCode("error"))
             /\ Count(t, "OnConnect") = (IF got[k][2] = ResultCode("success") THEN 1 ELSE 0)

\* all the candidates of the longest list have failed
C5_Witness ==
    \E t \in Callers : /\ Connects(t) /\ Count(t, "ConnectEx") = MaxAddrs
                       /\ Sel(t, "return") = <<<<"return", 0>>>>

\* ---------------------------------------------------------------- C6
\* C6: every error met by a dispatcher invocation for a live client ends in a
\* removal request.  When the invocation has logged an error and returns
\* without having re-armed an operation, PostRemoveClient has been requested.
Rearmed(t) == Count(t, "StartThreadpoolIo") > Count(t, "CancelThreadpoolIo")
C6_ErrorsRequestRemoval ==
    \A t \in Workers :
       (Dispatched(t) /\ Has(t, "ERROR_CODE") /\ ~Rearmed(t)) => removeReq

\* ---------------------------------------------------------------- C7
\* C7: idempotent close.  However many times Close is called, and from
\* whichever threads, the socket is released (CloseSocket) and its I/O
\* cancelled (CancelIoEx) once in total.
C7_ClosedOnce == nCloseSocket <= 1 /\ nCancelIoEx <= 1

\* ---------------------------------------------------------------- C8
\* C8: graceful close on a zero-length receive.  For a live client, a RECV
\* completion that reports success with zero bytes, or that arrives while the
\* state is CLOSED, calls OnClose, requests removal once and releases the
\* context, and nothing else: no OnRecv, no PostReceive.
ClosingRecv(t) ==
    /\ Dispatched(t)
    /\ io[t].type = "RECV" /\ io[t].result = "ERROR_SUCCESS"
    /\ (io[t].bytes = 0 \/ m_State = "CLOSED")
C8_GracefulClose ==
    \A t \in Workers :
       ClosingRecv(t) =>
          /\ calls[t] = <<C("OnClose"), C("PostRemoveClient"), <<"IOEvent::Destroy", ev[t]>>>>
          /\ removeReq
          /\ ctx[ev[t]] = FreeEvent

C8_Witness ==
    \E t \in Workers : ClosingRecv(t) /\ io[t].bytes = 0 /\ Has(t, "OnClose")

\* ---------------------------------------------------------------- C9
\* C9, as stated: after the dispatcher has handled a successful RECV completion
\* with zero bytes for a CONNECTED client, the state is CLOSED.
ZeroRecv(t) ==
    /\ pc[t] = "idle" /\ pc'[t] = "done" /\ op'[t] = CB /\ alive
    /\ io'[t].type = "RECV" /\ io'[t].result = "ERROR_SUCCESS" /\ io'[t].bytes = 0
    /\ m_State = "CONNECTED"
C9_ZeroRecvCloses ==
    [][\A t \in Workers : ZeroRecv(t) => m_State' = "CLOSED"]_vars

\* C9, as the code has it: the dispatcher that handles a successful RECV
\* completion with zero bytes for a CONNECTED client requests the removal and
\* leaves the state CONNECTED and the socket as it is: it closes nothing.
C9_ZeroRecvRequestsRemoval ==
    [][\A t \in Workers :
          ZeroRecv(t) => /\ removeReq'
                         /\ m_State' = "CONNECTED"
                         /\ UNCHANGED <<m_Socket, nCloseSocket, nCancelIoEx>>]_vars

C9_Witness ==
    \E t \in Workers : /\ Dispatched(t) /\ io[t].type = "RECV" /\ io[t].bytes = 0
                       /\ io[t].result = "ERROR_SUCCESS"
                       /\ m_State = "CONNECTED" /\ removeReq /\ m_Socket = "SOCKET"

\* ---------------------------------------------------------------- C10
\* C10: a failed Create leaves the client as it was: in every reachable state,
\* m_State = WAIT implies that the client holds no socket.
C10_IdleHasNoSocket == m_State = "WAIT" => m_Socket = "INVALID_SOCKET"

\* ---------------------------------------------------------------- C11
\* C11: PostSend is a no-op unless the state is CONNECTED.  Called in WAIT,
\* CREATED or CLOSED it returns having made no call: it leaves the state, the
\* socket, the send buffer (no memcpy) and the contexts unchanged, acquires no
\* context, arms no notification and requests no removal.
C11_PostSendNoOp ==
    [][\A t \in Callers :
          (pc[t] = "idle" /\ op'[t] = "PostSend" /\ m_State # "CONNECTED") =>
             /\ calls'[t] = <<>>
             /\ pc'[t] = "done"
             /\ UNCHANGED <<client, ctx, armed, removeReq, alive, sockets, fault>>]_vars

C11_Witness ==
    \E t \in Callers : /\ pc[t] = "done" /\ op[t] = "PostSend" /\ calls[t] = <<>>
                       /\ m_State = "CREATED" /\ m_Socket = "SOCKET"

\* ---------------------------------------------------------------- C12
\* C12: teardown order and drain.  The destructor calls Close(), then waits for
\* the callbacks of the I/O association, then releases the association, then
\* frees the address list, in this order; and the association is released
\* only while no dispatcher invocation is executing.
Torn(tr) ==
    \E closed \in {<<>>, CloseCalls("SOCKET"), CloseCalls("INVALID_SOCKET")},
       tp \in {<<>>, <<C("WaitForThreadpoolIoCallbacks"), C("CloseThreadpoolIo")>>},
       fl \in {<<>>, <<C("freeaddrinfo")>>} :
       tr = <<C("Destroy"), C("Close")>> \o closed \o tp \o fl
C12_DestroyOrder ==
    [][/\ (m_pTPIO /\ ~m_pTPIO') => \A w \in Workers : pc[w] = "idle" /\ pc'[w] = "idle"
       /\ \A t \in Callers :
             (pc[t] # "deleted" /\ pc'[t] = "deleted") =>
                /\ Torn(calls'[t])
                /\ ~m_pTPIO'
                /\ Has(t, "WaitForThreadpoolIoCallbacks") <=> m_pTPIO
                /\ (m_infoList # 0) => calls'[t][Len(calls'[t])] = C("freeaddrinfo")]_vars

C12_Witness ==
    \E t \in Callers : /\ pc[t] = "deleted"
                       /\ Has(t, "CloseSocket") /\ Has(t, "CloseThreadpoolIo")
                       /\ Has(t, "freeaddrinfo")

\* ---------------------------------------------------------------- C13
\* C13: promotion only by a receive that was posted.  The state becomes
\* CONNECTED only at line 344 of PostReceive, which PostReceive reaches only
\* after a WSARecv that succeeded or is pending, its context outstanding; an
\* operation that ends with the failure of PostReceive's WSARecv or of every
\* connect candidate leaves the state as it was; and PostReceive called in
\* CLOSED only requests the removal: no context acquired, nothing armed.
LastOf(tr, name) ==
    LET r == SelectSeq(tr, LAMBDA c : c[1] = name) IN r[Len(r)][2]
C13_Promotion ==
    [][/\ (m_State # "CONNECTED" /\ m_State' = "CONNECTED") =>
             \E t \in Threads : pc[t] = "Promote_set" /\ pc'[t] = "done"
       /\ \A t \in Threads :
             /\ (pc[t] = "idle" /\ pc'[t] = "cont") =>
                   /\ LastOf(calls'[t], "WSARecv returned") # ResultCode("error")
                   /\ \E e \in Events : /\ ctx'[e] = [FreeEvent EXCEPT !.type = "RECV",
                                                                        !.pending = TRUE]
                                         /\ ctx[e] = FreeEvent
                                         /\ LastOf(calls'[t], "WSARecv") = e
             /\ (pc'[t] = "Promote_set" /\ pc[t] # "Promote_set") =>
                   pc[t] = "Promote_check" /\ m_State = "CREATED"
             /\ (pc'[t] = "Promote_check" /\ pc[t] # "Promote_check") => pc[t] = "cont"
             /\ (pc[t] = "idle" /\ pc'[t] = "done" /\ op'[t] \in {"PostConnect", CB}) =>
                   m_State' = m_State
             /\ (pc[t] = "idle" /\ pc'[t] = "done" /\ m_State = "CLOSED"
                    /\ \E i \in 1..Len(calls'[t]) : calls'[t][i] = C("PostReceive")) =>
                   /\ removeReq'
                   /\ \A i \in 1..Len(calls'[t]) :
                         calls'[t][i][1] \notin {"IOEvent::Create", "StartThreadpoolIo", "WSARecv"}
                   /\ armed' = armed - 1
                   /\ ctx' = IOEventDestroy([ctx EXCEPT ![ev'[t]].pending = FALSE], ev'[t])]_vars

\* a first receive has been posted for a CREATED client, which is promoted next
C13_Witness ==
    \E t \in Threads : /\ pc[t] = "Promote_set" /\ m_State = "CREATED"
                       /\ Cardinality(RecvOutstanding) = 1

\* ---------------------------------------------------------------- C14
\* C14: a connect error is retried until the candidates are exhausted.  When a
\* dispatcher invocation for a failed CONNECT completion of a live client has
\* requested the removal for the connect failure (no connect succeeded in it),
\* no untried candidate remains: the cursor is NULL or at the last candidate.
Exhausted(p) == p = NoInfo \/ p.i = p.n
C14_RetryUntilExhausted ==
    \A t \in Workers :
       (/\ Dispatched(t) /\ io[t].type = "CONNECT" /\ io[t].result = "ERROR"
        /\ Has(t, "PostRemoveClient") /\ ~Has(t, "OnConnect")) => Exhausted(m_info)

\* ---------------------------------------------------------------- C15
\* C15: arm before issue.  In every operation, each call that issues an
\* asynchronous operation (ConnectEx, WSARecv, WSASend) comes right after the
\* StartThreadpoolIo that arms its notification.
Issuing == {"ConnectEx", "WSARecv", "WSASend"}
C15_ArmBeforeIssue ==
    \A t \in Threads : \A i \in 1..Len(calls[t]) :
       calls[t][i][1] \in Issuing => (i > 1 /\ calls[t][i - 1] = C("StartThreadpoolIo"))

\* ---------------------------------------------------------------- C16
\* C16: Close step order.  Close sets the state, then cancels the I/O of the
\* socket while the handle is open, and only then releases the handle: in the
\* calls of an operation CancelIoEx comes before CloseSocket, never after.
C16_CancelBeforeRelease ==
    \A t \in Threads : \A i, j \in 1..Len(calls[t]) :
       (calls[t][i][1] = "CloseSocket" /\ calls[t][j][1] = "CancelIoEx") => j < i

\* ---------------------------------------------------------------- C17
\* C17: connect attempts are sequential.  At most one CONNECT context is
\* outstanding at any instant, whatever the callers do (PostConnect called
\* again in CREATED included), and OnConnect runs at most once for the client:
\* it runs only in a step before which no connect of the socket had succeeded
\* and after which one has.
ConnectOutstanding == {e \in Events : ctx[e].type = "CONNECT" /\ ctx[e].pending}
Outstanding == {e \in Events : ctx[e].pending}
C18_ArmBalance ==
    (\A t \in Threads : pc[t] \in {"idle", "deleted"}) => armed = Cardinality(Outstanding)

\* ---------------------------------------------------------------- C19
\* C19: valid cursor on connect failure.  Whenever the dispatcher handles a
\* failed CONNECT completion for a live client, m_info is not NULL and not past
\* the end: it refers to a candidate of a resolved list.
C19_ValidCursor ==
    [][\A t \in Workers :
          (/\ pc[t] = "idle" /\ op'[t] = CB /\ alive
           /\ io'[t].type = "CONNECT" /\ io'[t].result = "ERROR") =>
             /\ m_info # NoInfo
             /\ m_info.i \in 1..m_info.n]_vars

\* ---------------------------------------------------------------- C20
\* C20: the receive is always re-armed.  After the dispatcher has handled a
\* successful RECV completion with data for a live client that is not CLOSED,
\* a new RECV context is outstanding or the removal is requested; and between
\* the operations a live CONNECTED client with no removal requested has
\* exactly one RECV context outstanding.
C20_ReceiveRearmed ==
    [][/\ \A t \in Workers :
             (/\ pc[t] = "idle" /\ op'[t] = CB /\ alive /\ m_State # "CLOSED"
              /\ io'[t].type = "RECV" /\ io'[t].result = "ERROR_SUCCESS"
              /\ io'[t].bytes > 0) =>
                \/ removeReq'
                \/ \E e \in Events : ctx'[e].type = "RECV" /\ ctx'[e].pending
       /\ (/\ \A t \in Threads : pc[t] = "idle"
           /\ alive /\ m_State = "CONNECTED" /\ ~removeReq) =>
             Cardinality(RecvOutstanding) = 1]_vars

\* the handler of a receive with data has posted the next receive, and the
\* client is CONNECTED
C20_Witness ==
    \E t \in Workers : /\ pc[t] = "cont" /\ io[t].type = "RECV" /\ io[t].bytes > 0
                       /\ m_State = "CONNECTED" /\ ~removeReq
                       /\ Cardinality(RecvOutstanding) = 1

====
